---- MODULE Spec2Model ----
(***************************************************************************)
(* Identity / token lifecycle of the auth service (src/auth/src).          *)
(*                                                                         *)
(* Every inbound request runs as its own task (a slot of Procs).  A task   *)
(* is suspended at each await on the relational store or on the cache, so  *)
(* one action of the model is one such store access together with the      *)
(* synchronous code of the handler that follows it up to the next access.  *)
(* A JWT is modelled by the claims it signs plus the validity of its       *)
(* signature: HS256 is deterministic, so equal claims give equal strings.  *)
(***************************************************************************)
EXTENDS Integers, FiniteSets, Sequences, TLC

\* ---------------------------------------------------------------- bounds
MaxRequests == 3
MaxSeqRequests == 4
MaxSessionRequests == 3
MaxTicks == 1
MaxFaultRequests == 3
MaxGrantRequests == 3
MaxClockRequests == 3
MaxClockTicks == 2
MaxExpiryTicks == 2
MaxBackoffRequests == 2
MaxLimiterRequests == 22
MaxLimiterTicks == 1
MaxHeaderRequests == 3
MaxVerifyRequests == 4
MaxLikesSeqRequests == 3
MaxLikesRequests == 3
MaxNotifyRequests == 3
MaxUgcRequests == 2

\* ---------------------------------------------------- program constants
access_token_expire_in_minutes == 30
refresh_token_expire_in_days == 7

AccessTtl == access_token_expire_in_minutes * 60
RefreshTtl == refresh_token_expire_in_days * 24 * 60 * 60

default_role == "user"

\* settings.errors_max and the defaults of backoff(); sleeping times are in
\* tenths of a second (0.1 s, doubled, capped at 10 s).
errors_max == 10
start_sleep_time == 1
factor == 2
border_sleep_time == 100

\* "20/minutes" of limiter.limit
RateLimit == 20
Minute == 60

\* ------------------------------------------------------------- domains
Procs == {"p1", "p2"}
SuperLogin == "root"
Logins == {"root", "alice"}
Passwords == {"pw1", "pw2"}
SuperPassword == "pw1"
RandomPassword == "token_urlsafe"
Roles == {"user", "admin"}
Emails == {"e@ya.ru"}
Jumps == {1, RefreshTtl}
AccessJumps == {2, AccessTtl - 1}
RefreshJumps == {1, RefreshTtl - 1}
LimiterJumps == {1, Minute}
Addrs == {"10.0.0.1", "10.0.0.2"}
GatewayOps == {"get_access_token", "get_user_info"}

None == "none"

\* ------------------------------------------------------------ records
ZeroRoles == [r \in Roles |-> 0]

NoHash == <<None, None>>

NoUser == [login |-> None, roles |-> ZeroRoles, is_superuser |-> FALSE,
           password |-> NoHash]

NoToken == [sub |-> None, sup |-> None, exp |-> 0, roles |-> ZeroRoles,
            sig |-> None]

\* A token whose signature was not made with settings.secret_key.
ForgedToken == [sub |-> SuperLogin, sup |-> "access", exp |-> 10 * RefreshTtl,
                roles |-> ZeroRoles, sig |-> "forged"]

VARIABLES
    users,      \* table user: login -> row (exists, password hash, is_superuser)
    userRole,   \* table userrole: login -> role -> number of rows
    oauthLink,  \* table useroauthprovider: email -> login of the bound user
    history,    \* table history: login -> number of rows
    cache,      \* redis: set of [key, until]
    now,        \* wall clock, seconds
    proc,       \* the request task of each slot
    issued,     \* token strings handed to clients so far
    signedOut,  \* token strings whose sign-out has been answered
    left,       \* number of requests still to come
    ticks,      \* number of clock jumps taken
    limits,     \* the limiter's storage: address -> operation -> window
    net,        \* address -> operation -> calls let through, by minute
    mongo,      \* likes service: collections users and films
    kafka       \* ugc service: events handed to the Kafka producer

dbVars == <<users, userRole, oauthLink, history>>
peerVars == <<mongo, kafka>>
envVars == <<now, ticks, limits, peerVars>>
logVars == <<issued, signedOut, net>>
vars == <<users, userRole, oauthLink, history, cache, now, proc, issued,
          signedOut, left, ticks, limits, net, mongo, kafka>>

\* ------------------------------------------------------ password hashes
\* werkzeug generate_password_hash / check_password_hash: the stored value
\* is a digest of the password, matched only by the same password.
generate_password_hash(password) == <<"pbkdf2", password>>

\* Variant: any password is taken for the stored one.
check_password_hash_skipped(pwhash, password) == TRUE

check_password_hash(pwhash, password) ==
    pwhash = generate_password_hash(password)

check_password(user, password) == check_password_hash(user.password, password)

\* ------------------------------------------------------------- tokens
jwt_encode(payload) == [payload EXCEPT !.sig = "HS256"]

\* Variant: an expired token is still taken for ten seconds.
jwt_decode_ok_leeway(token, t) == token.sig = "HS256" /\ token.exp + 10 > t

\* jwt.decode: signature made with the service key and exp still ahead.
jwt_decode_ok(token, t) == token.sig = "HS256" /\ token.exp > t

create_access_token(data, t) ==
    jwt_encode([sub |-> data.sub, sup |-> "access", exp |-> t + AccessTtl,
                roles |-> data.roles, sig |-> None])

RefreshString(data, t) ==
    jwt_encode([sub |-> data.sub, sup |-> "refresh", exp |-> t + RefreshTtl,
                roles |-> ZeroRoles, sig |-> None])

\* TokenService.verify_token: the payload, or NoToken when decoding fails.
verify_token(token, t) == IF jwt_decode_ok(token, t) THEN token ELSE NoToken

\* TokenService.generate_payload: roles of the loaded user, and the payload.
generate_payload(user) == [sub |-> user.login, roles |-> user.roles]

\* --------------------------------------------------------------- cache
\* Variant: the registry is not consulted, every key counts as present.
cache_get_skipped(c, key, t) == TRUE

cache_get(c, key, t) == \E e \in c : e.key = key /\ e.until > t

cache_set(c, key, ex, t) ==
    {e \in c : e.key # key} \cup {[key |-> key, until |-> t + ex]}

cache_delete(c, key) == {e \in c : e.key # key}

\* Variant: sign-out empties the registry.
invalidate_refresh_token_flushing(c, refresh_token) == {}

\* TokenService.invalidate_refresh_token
invalidate_refresh_token(c, refresh_token) == cache_delete(c, refresh_token)

\* Variant: the key is registered for the access token's lifetime.
register_refresh_token_short(c, encoded_jwt, t) ==
    cache_set(c, encoded_jwt, access_token_expire_in_minutes * 60, t)

\* The cache write of TokenService.create_refresh_token.
register_refresh_token(c, encoded_jwt, t) ==
    cache_set(c, encoded_jwt, refresh_token_expire_in_days * 24 * 60 * 60, t)

\* ------------------------------------------------------------ queries
\* UserService.get_by_login with its selectinload of the roles.
get_by_login(login) ==
    IF login \in Logins /\ users[login].exists
    THEN [login |-> login, roles |-> userRole[login],
          is_superuser |-> users[login].is_superuser,
          password |-> users[login].password]
    ELSE NoUser

\* UserService.get_by_oauth: login of the bound user, None when no row.
get_by_oauth(email) == IF email \in Emails THEN oauthLink[email] ELSE None

\* Variant: the user's roles are never found.
has_role_blind(login, role) == FALSE

\* RoleService.get_user_roles + the any(...) test of the role endpoints.
has_role(login, role) == userRole[login][role] > 0

\* ------------------------------------------------------------- tasks
\* oauth_services of services/oauth.py and the seeded oauthprovider table.
oauth_services == {"yandex"}
DEFAULT_OAUTHPROVIDERS == {"yandex"}
ProviderNames == {"yandex", "Yandex", "github"}

\* str.lower on the provider names a request can carry
lower(name) == IF name = "Yandex" THEN "yandex" ELSE name

\* Variant: every name is taken for a registered adapter.
get_oauthprovider_service_any(provider) == lower(provider)

\* get_oauthprovider_service: the adapter registered under the lowered
\* name, None when there is none.
get_oauthprovider_service(provider) ==
    IF lower(provider) \in oauth_services THEN lower(provider) ELSE None

\* UserService.get_oauth_provider_by_name: the row of that very name.
get_oauth_provider_by_name(name) ==
    IF name \in DEFAULT_OAUTHPROVIDERS THEN name ELSE None

\* What OauthYandexService.get_user_info answers for the supplied token:
\* a profile with a login, a profile without one, or a non-200 reply.
UserInfos == Emails \cup {"no_login", "http_error"}

\* Films the clients of the likes service name.
FilmIds == {"f1", "f2"}

\* find_one found no document.
NoDoc == [exists |-> FALSE]

\* db/models.py:26-31 and 37-44: a User and a Film document as their
\* default factories make them.
User(id) == [exists |-> TRUE, liked_films |-> <<>>, disliked_films |-> <<>>,
             rated_films |-> <<>>, favorite_films |-> <<>>]
Film(id) == [exists |-> TRUE, likes_count |-> 0, dislikes_count |-> 0,
             raiting_count |-> 0, reviews_count |-> 0, favorites_count |-> 0]

Idle == [pc |-> "idle", op |-> None, login |-> None, password |-> None,
         info |-> None, provider |-> None, tok |-> NoToken, target |-> None,
         role |-> None, user |-> NoUser, cur |-> NoUser, ouser |-> None,
         existing |-> FALSE, at |-> NoToken, rt |-> NoToken, status |-> 0,
         detail |-> None, roles |-> ZeroRoles, rows |-> 0,
         after_signout |-> FALSE, after_signup |-> FALSE,
         fresh |-> FALSE, after_fresh |-> FALSE, failed |-> None,
         addr |-> None, attempt |-> 0, wait_time |-> 0, calls |-> 0,
         raised |-> None, seen |-> 0, known |-> FALSE, bound |-> None,
         rid |-> TRUE, vstatus |-> 0, uid |-> None, category |-> None,
         action |-> None, film |-> None, inc |-> 0, udoc |-> NoDoc,
         fdoc |-> NoDoc, sent |-> FALSE, payload |-> None, had |-> FALSE,
         before |-> NoDoc, activity |-> FALSE]

\* The limiter's counter of one address and operation before its first hit.
NoWindow == [count |-> 0, until |-> 0]

\* No call of an operation has left for the provider yet.
NoCalls == [since |-> 0, n |-> 0]

\* Token strings a client can present: the ones it was given, or a forgery.
Presentable == issued \cup {ForgedToken}

\* The same OAuth sign-in: same login, provider and remote profile.
SameOauth(a, b) ==
    /\ a.op = "signin" /\ b.op = "signin"
    /\ a.info # None /\ a.info = b.info
    /\ a.login = b.login /\ a.provider = b.provider

\* A request arrives on a free slot.  Facts about what came before it are
\* noted for the properties: the presented token had been signed out; the
\* slot's previous request was the successful sign-up of the same login and
\* password; the request is an OAuth sign-in whose remote email is bound
\* to nobody and whose login no user has (fresh); the slot's previous
\* request was such a sign-in, answered 200, and this one repeats it; on
\* the arrival of a sign-in its login has a user (known), and the user its
\* remote email is bound to (bound).
Begin(p, r) ==
    /\ proc[p].pc \in {"idle", "done"}
    /\ left > 0
    /\ left' = left - 1
    /\ proc' = [proc EXCEPT ![p] =
          [r EXCEPT !.after_signout = (r.tok \in signedOut),
                    !.after_signup = /\ proc[p].op = "signup"
                                     /\ proc[p].status = 200
                                     /\ proc[p].login = r.login
                                     /\ proc[p].password = r.password
                                     /\ r.op = "signin",
                    !.fresh = /\ r.op = "signin" /\ r.info \in Emails
                              /\ oauthLink[r.info] = None
                              /\ ~users[r.login].exists,
                    !.known = r.op = "signin" /\ users[r.login].exists,
                    !.bound = IF r.op = "signin" THEN get_by_oauth(r.info)
                              ELSE None,
                    !.after_fresh = /\ SameOauth(proc[p], r)
                                    /\ proc[p].fresh
                                    /\ proc[p].pc = "done"
                                    /\ proc[p].status = 200]]
    /\ UNCHANGED <<dbVars, cache, envVars, logVars>>

\* Variant: the response of the handler is passed on whatever the headers.
before_request_lenient(r, status, detail) ==
    [status |-> status, detail |-> detail]

\* The middleware before_request (main.py:41-50) once call_next has
\* returned the handler's response: without an X-Request-Id header (rid)
\* the response is replaced.  An exception no handler caught (500) passes
\* through it.
before_request(r, status, detail) ==
    IF r.rid \/ status = 500
    THEN [status |-> status, detail |-> detail]
    ELSE [status |-> 400, detail |-> "X-Request-Id is required"]

\* A handler returning or raising HTTPException (or the store raising):
\* the response.
Respond(p, r, status, detail) ==
    proc' = [proc EXCEPT ![p] =
               [r EXCEPT !.pc = "done",
                         !.status = before_request(r, status, detail).status,
                         !.detail = before_request(r, status, detail).detail]]

\* An await on the relational store or on the cache raises (connection
\* lost, timeout): the session is rolled back, which undoes nothing that an
\* earlier commit of the request has written, and the request is answered
\* 500.  The place the task was at is kept for the properties.
StoreError(p) ==
    /\ proc[p].pc \notin {"idle", "done"}
    /\ Respond(p, [proc[p] EXCEPT !.failed = proc[p].pc], 500,
               "Internal Server Error")
    /\ UNCHANGED <<dbVars, cache, envVars, logVars, left>>

Goto(p, r, pc) == proc' = [proc EXCEPT ![p] = [r EXCEPT !.pc = pc]]

\* Time passes; redis drops the keys whose TTL has elapsed.
Tick ==
    /\ ticks < MaxTicks
    /\ \E d \in Jumps :
          /\ now' = now + d
          /\ cache' = {e \in cache : e.until > now + d}
    /\ ticks' = ticks + 1
    /\ UNCHANGED <<dbVars, proc, logVars, left, limits, peerVars>>

\* Time passes by one of the given jumps.
Elapse(jumps, bound) ==
    /\ ticks < bound
    /\ \E d \in jumps :
          /\ now' = now + d
          /\ cache' = {e \in cache : e.until > now + d}
    /\ ticks' = ticks + 1
    /\ UNCHANGED <<dbVars, proc, logVars, left, limits, peerVars>>

\* ------------------------------------------- the OAuth gateway calls
\* OauthYandexService.get_access_token and get_user_info as an endpoint
\* awaits them: limiter.limit outermost, backoff() inside it, the httpx
\* request innermost.  A request is made from a client address.
StartGateway(p, ops) ==
    \E a \in Addrs, o \in ops :
        Begin(p, [Idle EXCEPT !.pc = "gw_limit", !.op = o, !.addr = a])

\* What one invocation of the wrapped coroutine ends in: it returns the
\* provider's reply; it raises HTTPException 400 for an error reply; the
\* httpx call raises a subclass of httpx.RequestError (ConnectError,
\* ReadTimeout, ...); something else is raised (the body is not JSON).
Outcomes == {"reply", "HTTPException", "RequestError", "ValueError"}

\* Variant: the counter is kept but never refuses.
hit_unlimited(e, t) ==
    [count |-> 1, until |-> t + Minute]

\* The fixed-window counter behind limiter.limit("20/minutes"): the first
\* hit opens a window of one minute, every hit inside it is counted.
hit(e, t) ==
    IF e.until <= t THEN [count |-> 1, until |-> t + Minute]
                    ELSE [count |-> e.count + 1, until |-> e.until]

\* The wrapped coroutine is invoked: a request leaves for the provider.
Invoke(p, r) == Goto(p, [r EXCEPT !.calls = @ + 1], "gw_call")

\* A call of the operation is let through to the provider.  The calls are
\* counted by minute: a minute starts with the first call after the
\* minute before it is over.
LetThrough(n, a, o, t) ==
    [n EXCEPT ![a][o] = IF @.n = 0 \/ t >= @.since + Minute
                        THEN [since |-> t, n |-> 1]
                        ELSE [since |-> @.since, n |-> @.n + 1]]

\* services/oauth.py:58 and 92, then likes/src/utils/backoff.py:29-33: the
\* limit is tested, and within it the loop makes its first invocation.
gw_limit(p) ==
    /\ proc[p].pc = "gw_limit"
    /\ LET r == proc[p]
           e == hit(limits[r.addr][r.op], now)
       IN /\ limits' = [limits EXCEPT ![r.addr][r.op] = e]
          /\ IF e.count > RateLimit
             THEN /\ Respond(p, r, 429, "Rate limit exceeded")
                  /\ net' = net
             ELSE /\ net' = LetThrough(net, r.addr, r.op, now)
                  /\ Invoke(p, [r EXCEPT !.attempt = 0,
                                        !.wait_time = start_sleep_time])
    /\ UNCHANGED <<dbVars, cache, now, ticks, issued, signedOut, left,
                   peerVars>>

\* Variant: every exception of the invocation is retried.
ShouldRetry_any(outcome) == outcome # "reply"

\* "except httpx.RequestError" of likes/src/utils/backoff.py:34
ShouldRetry(outcome) == outcome = "RequestError"

\* likes/src/utils/backoff.py:33-35: the invocation returns or raises.
gw_call(p) ==
    /\ proc[p].pc = "gw_call"
    /\ \E o \in Outcomes :
          LET r == [proc[p] EXCEPT !.raised = o]
          IN IF o = "reply" THEN Respond(p, r, 200, "ok")
             ELSE IF ShouldRetry(o) THEN Goto(p, r, "gw_sleep")
             ELSE IF o = "HTTPException"
             THEN Respond(p, r, 400, "Unable to fetch user info from Yandex.")
             ELSE Respond(p, r, 500, "Internal Server Error")
    /\ UNCHANGED <<dbVars, cache, envVars, logVars, left>>

\* wait_time after the sleep (likes/src/utils/backoff.py:36-40)
NextWait(wait_time, attempt) ==
    IF wait_time < border_sleep_time
    THEN LET t == start_sleep_time * (factor ^ (attempt + 1))
         IN IF t < border_sleep_time THEN t ELSE border_sleep_time
    ELSE wait_time

\* Variant: the loop allows one attempt more.
MayRetry_once_more(attempt) == attempt < errors_max + 1

\* "while attempt < settings.errors_max" of likes/src/utils/backoff.py:31
MayRetry(attempt) == attempt < errors_max

\* likes/src/utils/backoff.py:35-42: the sleep is over; the next
\* invocation, or the exception that ends the loop, which no handler of
\* the application catches.
gw_sleep(p) ==
    /\ proc[p].pc = "gw_sleep"
    /\ LET r == [proc[p] EXCEPT
                    !.wait_time = NextWait(proc[p].wait_time, proc[p].attempt),
                    !.attempt = @ + 1]
       IN IF MayRetry(r.attempt)
          THEN Invoke(p, r)
          ELSE Respond(p, r, 500, "Internal Server Error")
    /\ UNCHANGED <<dbVars, cache, envVars, logVars, left>>

\* ------------------------------------------------- POST /user/signup
StartSignup(p) ==
    \E l \in Logins, pw \in Passwords :
        Begin(p, [Idle EXCEPT !.pc = "su_get", !.op = "signup", !.login = l,
                              !.password = pw])

\* api/v1/user.py:47-51
su_get(p) ==
    /\ proc[p].pc = "su_get"
    /\ LET r == proc[p]
           user == get_by_login(r.login)
       IN IF user # NoUser
          THEN Respond(p, r, 409, "User already exists!")
          ELSE Goto(p, r, "su_cu_get")
    /\ UNCHANGED <<dbVars, cache, envVars, logVars, left>>

\* UserService.create_or_update, its query (services/user.py:52)
cu_get(p, pc, next) ==
    /\ proc[p].pc = pc
    /\ LET r == proc[p]
           existing_user == get_by_login(r.login)
       IN Goto(p, [r EXCEPT !.existing = (existing_user # NoUser),
                            !.user = existing_user], next)
    /\ UNCHANGED <<dbVars, cache, envVars, logVars, left>>

\* UserService.create_or_update, its commit (services/user.py:54-65): an
\* UPDATE of the row found by the query, else an INSERT that the unique
\* index on user.login rejects when the login has been taken meanwhile.
cu_commit(p, pc, next, password) ==
    /\ proc[p].pc = pc
    /\ LET r == proc[p]
       IN IF ~r.existing /\ users[r.login].exists
          THEN /\ Respond(p, r, 500, "IntegrityError")
               /\ users' = users
          ELSE /\ users' = [users EXCEPT ![r.login] =
                     [@ EXCEPT !.exists = TRUE,
                               !.password = generate_password_hash(password)]]
               /\ Goto(p, [r EXCEPT !.user = [login |-> r.login,
                              roles |-> r.user.roles,
                              is_superuser |-> users[r.login].is_superuser,
                              password |-> generate_password_hash(password)]],
                       next)
    /\ UNCHANGED <<userRole, oauthLink, history, cache, envVars, logVars, left>>

su_cu_get(p) == cu_get(p, "su_cu_get", "su_cu_commit")

su_cu_commit(p) == cu_commit(p, "su_cu_commit", "su_assign", proc[p].password)

\* Variant: the userrole row is never written.
assign_role_dropped(ur, login, role) == ur

\* RoleService.assign_role (services/role.py:51-54): one more userrole row.
assign_role(ur, login, role) == [ur EXCEPT ![login][role] = @ + 1]

\* api/v1/user.py:57-59
su_assign(p) ==
    /\ proc[p].pc = "su_assign"
    /\ userRole' = assign_role(userRole, proc[p].user.login, default_role)
    /\ Respond(p, proc[p], 200, "ok")
    /\ UNCHANGED <<users, oauthLink, history, cache, envVars, logVars, left>>

\* ------------------------------------------------- POST /user/signin
StartSignin(p) ==
    \E l \in Logins, pw \in Passwords :
        Begin(p, [Idle EXCEPT !.pc = "si_get", !.op = "signin", !.login = l,
                              !.password = pw])

StartOauthSignin(p) ==
    \E l \in Logins, i \in UserInfos, pr \in ProviderNames :
        Begin(p, [Idle EXCEPT !.pc = "si_get", !.op = "signin", !.login = l,
                              !.info = i, !.provider = pr])

\* api/v1/user.py:157-160 up to the cache write: the payload is built from
\* the loaded user and both tokens are signed with the clock of this moment.
IssueTokens(p, r, user) ==
    Goto(p, [r EXCEPT !.user = user,
                      !.roles = generate_payload(user).roles,
                      !.at = create_access_token(generate_payload(user), now),
                      !.rt = RefreshString([sub |-> user.login], now)],
         "si_set")

\* api/v1/user.py:89-113 and, on the password path, 152-160
si_get(p) ==
    /\ proc[p].pc = "si_get"
    /\ LET r == proc[p]
           user == get_by_login(r.login)
       IN IF r.info # None
          THEN IF get_oauthprovider_service(r.provider) = None
               THEN Respond(p, r, 404, "Provider service not available.")
               ELSE IF r.info = "http_error"
               THEN Respond(p, r, 400, "Unable to fetch user info from Yandex.")
               ELSE IF r.info = "no_login"
               THEN Respond(p, r, 400, "Invalid OAuth token.")
               ELSE IF get_oauth_provider_by_name(r.provider) = None
               THEN Respond(p, r, 400, "Invalid OAuth provider.")
               ELSE Goto(p, [r EXCEPT !.user = user], "si_oauth_get")
          ELSE IF user = NoUser \/ ~check_password(user, r.password)
               THEN Respond(p, r, 400, "Invalid credentials")
               ELSE IssueTokens(p, r, user)
    /\ UNCHANGED <<dbVars, cache, envVars, logVars, left>>

\* detail of the HTTPException of api/v1/user.py:119-122
IdentityConflict ==
    "This OAuth user is already linked to a different local user. Call support!"

\* Variant: the bound user is never compared with the matched one.
LinkedElsewhere_unchecked(oauth_user, user) == FALSE

\* The test of api/v1/user.py:117-118: the identity is bound to a user that
\* is not the one the supplied login matched (None when it matched nobody).
LinkedElsewhere(oauth_user, user) ==
    oauth_user # None /\ oauth_user # user.login

\* api/v1/user.py:115-124 and 135, 144-150
si_oauth_get(p) ==
    /\ proc[p].pc = "si_oauth_get"
    /\ LET r == proc[p]
           oauth_user == get_by_oauth(r.info)
           r1 == [r EXCEPT !.ouser = oauth_user]
       IN IF LinkedElsewhere(oauth_user, r.user)
          THEN Respond(p, r1, 400, IdentityConflict)
          ELSE IF r.user = NoUser
          THEN Goto(p, r1, "si_cu_get")
          ELSE IF oauth_user = None
          THEN Goto(p, r1, "si_ocu_get")
          ELSE IssueTokens(p, r1, r.user)
    /\ UNCHANGED <<dbVars, cache, envVars, logVars, left>>

si_cu_get(p) == cu_get(p, "si_cu_get", "si_cu_commit")

si_cu_commit(p) == cu_commit(p, "si_cu_commit", "si_assign", RandomPassword)

\* api/v1/user.py:132
si_assign(p) ==
    /\ proc[p].pc = "si_assign"
    /\ userRole' = assign_role(userRole, proc[p].user.login, default_role)
    /\ Goto(p, proc[p], "si_reget")
    /\ UNCHANGED <<users, oauthLink, history, cache, envVars, logVars, left>>

\* api/v1/user.py:133-136.  The session returns the object it already
\* holds: the roles of a user that create_or_update found are the ones its
\* query loaded, those of a user it inserted are loaded here.
si_reget(p) ==
    /\ proc[p].pc = "si_reget"
    /\ LET r == proc[p]
           user == IF r.existing THEN r.user
                   ELSE [r.user EXCEPT !.roles = userRole[r.login]]
       IN IF r.ouser = None
          THEN Goto(p, [r EXCEPT !.user = user], "si_ocu_get")
          ELSE IssueTokens(p, r, get_by_login(r.ouser))
    /\ UNCHANGED <<dbVars, cache, envVars, logVars, left>>

\* UserService.oauth_create_or_update, its queries (services/user.py:151-152)
si_ocu_get(p) ==
    /\ proc[p].pc = "si_ocu_get"
    /\ LET r == proc[p]
       IN Goto(p, [r EXCEPT !.existing = (get_by_oauth(r.info) # None)],
               "si_ocu_commit")
    /\ UNCHANGED <<dbVars, cache, envVars, logVars, left>>

\* Variant: no useroauthprovider row is ever written.
oauth_create_or_update_dropped(link, email, user, found) == link

\* Variant: the update branch also rebinds the row to the caller's user.
oauth_create_or_update_rebinding(link, email, user, found) ==
    [link EXCEPT ![email] = user.login]

\* The useroauthprovider row after oauth_create_or_update's commit
\* (services/user.py:154-168): a row that exists keeps its user.
oauth_create_or_update(link, email, user, found) ==
    IF found THEN link ELSE [link EXCEPT ![email] = user.login]

\* services/user.py:154-169, then api/v1/user.py:157-160
si_ocu_commit(p) ==
    /\ proc[p].pc = "si_ocu_commit"
    /\ LET r == proc[p]
       IN IF ~r.existing /\ oauthLink[r.info] # None
          THEN /\ Respond(p, r, 500, "IntegrityError")
               /\ oauthLink' = oauthLink
          ELSE /\ oauthLink' = oauth_create_or_update(oauthLink, r.info, r.user,
                                                      r.existing)
               /\ IssueTokens(p, r, r.user)
    /\ UNCHANGED <<users, userRole, history, cache, envVars, logVars, left>>

\* Variant: the login-history row is appended together with the registry
\* write rather than after it.
si_set_with_history(p) ==
    /\ proc[p].pc = "si_set"
    /\ cache' = register_refresh_token(cache, proc[p].rt, now)
    /\ history' = [history EXCEPT ![proc[p].user.login] = @ + 1]
    /\ Goto(p, proc[p], "si_hist")
    /\ UNCHANGED <<users, userRole, oauthLink, envVars, logVars, left>>

\* TokenService.create_refresh_token, its cache write (services/token.py:55-58)
si_set(p) ==
    /\ proc[p].pc = "si_set"
    /\ cache' = register_refresh_token(cache, proc[p].rt, now)
    /\ Goto(p, proc[p], "si_hist")
    /\ UNCHANGED <<dbVars, envVars, logVars, left>>

\* Variant: no history row is written.
add_to_history_skipped(h, user_id) == h

\* UserService.add_to_history (services/user.py:75-78)
add_to_history(h, user_id) == [h EXCEPT ![user_id] = @ + 1]

\* api/v1/user.py:162-174
si_hist(p) ==
    /\ proc[p].pc = "si_hist"
    /\ history' = add_to_history(history, proc[p].user.login)
    /\ Respond(p, proc[p], 200, "ok")
    /\ issued' = IF proc[p].rid THEN issued \cup {proc[p].at, proc[p].rt}
                 ELSE issued
    /\ UNCHANGED <<users, userRole, oauthLink, cache, envVars, signedOut, net,
                   left>>

\* A sign-up, password sign-in or sign-out request that carries no
\* X-Request-Id header.
Headless(p) ==
    \/ \E l \in Logins, pw \in Passwords :
          \/ Begin(p, [Idle EXCEPT !.pc = "su_get", !.op = "signup",
                                   !.login = l, !.password = pw,
                                   !.rid = FALSE])
          \/ Begin(p, [Idle EXCEPT !.pc = "si_get", !.op = "signin",
                                   !.login = l, !.password = pw,
                                   !.rid = FALSE])
    \/ \E t \in Presentable :
          Begin(p, [Idle EXCEPT !.pc = "so_del", !.op = "signout", !.tok = t,
                                !.rid = FALSE])

\* ------------------------------------------------ POST /user/refresh
StartRefresh(p) ==
    \E t \in Presentable :
        Begin(p, [Idle EXCEPT !.pc = "rf_get", !.op = "refresh", !.tok = t])

\* "not payload or payload.get('sup') != kind" of api/v1/user.py:204-205
\* and 299-300, negated: the token decodes and is of the expected kind.
payload_is(token, t, kind) ==
    verify_token(token, t) # NoToken /\ verify_token(token, t).sup = kind

\* api/v1/user.py:198-210; the moment of the test is noted in seen.
rf_get(p) ==
    /\ proc[p].pc = "rf_get"
    /\ LET r == [proc[p] EXCEPT !.seen = now]
       IN IF ~cache_get(cache, r.tok, now)
          THEN Respond(p, r, 400, "Refresh token not found")
          ELSE IF ~payload_is(r.tok, now, "refresh")
          THEN Respond(p, r, 400, "Invalid refresh token")
          ELSE Goto(p, [r EXCEPT !.login = verify_token(r.tok, now).sub],
                    "rf_user")
    /\ UNCHANGED <<dbVars, cache, envVars, logVars, left>>

\* Variant: refresh rotates, revoking the presented string and answering
\* with a newly registered one.
rf_user_rotating(p) ==
    /\ proc[p].pc = "rf_user"
    /\ LET r == proc[p]
           user == get_by_login(r.login)
           new_access_token == create_access_token(generate_payload(user), now)
           new_refresh_token == RefreshString([sub |-> r.login], now + 1)
       IN /\ Respond(p, [r EXCEPT !.user = user, !.at = new_access_token,
                                  !.rt = new_refresh_token], 200, "ok")
          /\ issued' = issued \cup {new_access_token, new_refresh_token}
          /\ cache' = register_refresh_token(
                          invalidate_refresh_token(cache, r.tok),
                          new_refresh_token, now)
    /\ UNCHANGED <<dbVars, envVars, signedOut, net, left>>

\* api/v1/user.py:211-221
rf_user(p) ==
    /\ proc[p].pc = "rf_user"
    /\ LET r == proc[p]
           user == get_by_login(r.login)
           new_access_token == create_access_token(generate_payload(user), now)
       IN IF user = NoUser
          THEN /\ Respond(p, r, 400, "Invalid credentials")
               /\ issued' = issued
          ELSE /\ Respond(p, [r EXCEPT !.user = user, !.at = new_access_token,
                                       !.rt = r.tok], 200, "ok")
               /\ issued' = issued \cup {new_access_token}
    /\ UNCHANGED <<dbVars, cache, envVars, signedOut, net, left>>

\* ------------------------------------------------ POST /user/signout
StartSignout(p) ==
    \E t \in Presentable :
        Begin(p, [Idle EXCEPT !.pc = "so_del", !.op = "signout", !.tok = t])

\* api/v1/user.py:240-241
so_del(p) ==
    /\ proc[p].pc = "so_del"
    /\ cache' = invalidate_refresh_token(cache, proc[p].tok)
    /\ Respond(p, proc[p], 204, "ok")
    /\ signedOut' = signedOut \cup {proc[p].tok}
    /\ UNCHANGED <<dbVars, envVars, issued, net, left>>

\* -------------------------------------------------- GET /user/verify
StartVerify(p) ==
    \E t \in Presentable :
        Begin(p, [Idle EXCEPT !.pc = "vf_get", !.op = "verify", !.tok = t])

\* Variant: verify answers with the roles embedded in the token.
vf_get_embedded(p) ==
    /\ proc[p].pc = "vf_get"
    /\ LET r == [proc[p] EXCEPT !.seen = now]
           user == get_by_login(r.tok.sub)
       IN IF ~payload_is(r.tok, now, "access")
          THEN Respond(p, r, 400, "Invalid access token")
          ELSE IF user = NoUser
          THEN Respond(p, r, 400, "User not found")
          ELSE Respond(p, [r EXCEPT !.user = user, !.roles = r.tok.roles],
                       200, "ok")
    /\ UNCHANGED <<dbVars, cache, envVars, logVars, left>>

\* api/v1/user.py:299-322
vf_get(p) ==
    /\ proc[p].pc = "vf_get"
    /\ LET r == [proc[p] EXCEPT !.seen = now]
           user == get_by_login(r.tok.sub)
       IN IF ~payload_is(r.tok, now, "access")
          THEN Respond(p, r, 400, "Invalid access token")
          ELSE IF user = NoUser
          THEN Respond(p, r, 400, "User not found")
          ELSE Respond(p, [r EXCEPT !.user = user,
                                    !.roles = generate_payload(user).roles],
                       200, "ok")
    /\ UNCHANGED <<dbVars, cache, envVars, logVars, left>>

\* --------------------------- bearer-authenticated endpoints (HTTPBearer)
StartAssign(p) ==
    \E t \in Presentable, l \in Logins, ro \in Roles :
        Begin(p, [Idle EXCEPT !.pc = "gcu", !.op = "assign", !.tok = t,
                              !.target = l, !.role = ro])

StartRevoke(p) ==
    \E t \in Presentable, l \in Logins, ro \in Roles :
        Begin(p, [Idle EXCEPT !.pc = "gcu", !.op = "revoke", !.tok = t,
                              !.target = l, !.role = ro])

StartHistory(p) ==
    \E t \in Presentable, l \in Logins :
        Begin(p, [Idle EXCEPT !.pc = "gcu", !.op = "history", !.tok = t,
                              !.target = l])

\* The test get_current_user makes on the bearer token
\* (services/auth.py:27-36): jwt.decode succeeds.
BearerUsable(token, t) == jwt_decode_ok(token, t)

\* Variant: the role endpoints are open to every authenticated user.
gcu_anyone(p) ==
    /\ proc[p].pc = "gcu"
    /\ LET r == proc[p]
           current_user == get_by_login(r.tok.sub)
       IN IF ~BearerUsable(r.tok, now)
          THEN Respond(p, r, 401, "Invalid token")
          ELSE IF current_user = NoUser
          THEN Respond(p, r, 401, "User not authenticated")
          ELSE Goto(p, [r EXCEPT !.cur = current_user], "target")
    /\ UNCHANGED <<dbVars, cache, envVars, logVars, left>>

\* services/auth.py get_current_user (27-46) and, for the role endpoints,
\* get_superuser (57-62).
gcu(p) ==
    /\ proc[p].pc = "gcu"
    /\ LET r == proc[p]
           current_user == get_by_login(r.tok.sub)
       IN IF ~BearerUsable(r.tok, now)
          THEN Respond(p, r, 401, "Invalid token")
          ELSE IF current_user = NoUser
          THEN Respond(p, r, 401, "User not authenticated")
          ELSE IF r.op \in {"assign", "revoke"} /\ ~current_user.is_superuser
          THEN Respond(p, [r EXCEPT !.cur = current_user], 403,
                       "User does not have superuser privileges")
          ELSE Goto(p, [r EXCEPT !.cur = current_user], "target")
    /\ UNCHANGED <<dbVars, cache, envVars, logVars, left>>

\* Variant: the history endpoint does not look at who is asking.
target_open(p) ==
    /\ proc[p].pc = "target"
    /\ LET r == proc[p]
           user == get_by_login(r.target)
       IN IF user = NoUser
          THEN Respond(p, r, 404, "User not found")
          ELSE IF r.op = "history" THEN Goto(p, r, "hs_list")
          ELSE IF r.role \notin Roles
          THEN Respond(p, r, 404, "Role not found!")
          ELSE Goto(p, r, "roles")
    /\ UNCHANGED <<dbVars, cache, envVars, logVars, left>>

\* api/v1/role.py:37-47, 87-97 and api/v1/user.py:263-273: the target user
\* (and, for the role endpoints, the role) must exist.
target(p) ==
    /\ proc[p].pc = "target"
    /\ LET r == proc[p]
           user == get_by_login(r.target)
       IN IF r.op = "history"
          THEN IF user = NoUser
               THEN Respond(p, r, 404, "User not found")
               ELSE IF r.cur.login # r.target /\ ~r.cur.is_superuser
               THEN Respond(p, r, 403, "You are not authorized to access this user's login history.")
               ELSE Goto(p, r, "hs_list")
          ELSE IF user = NoUser
               THEN Respond(p, r, 404, "Target user not found!")
               ELSE IF r.role \notin Roles
               THEN Respond(p, r, 404, "Role not found!")
               ELSE Goto(p, r, "roles")
    /\ UNCHANGED <<dbVars, cache, envVars, logVars, left>>

\* api/v1/role.py:49-54 and 99-106: get_user_roles and the any(...) test.
roles(p) ==
    /\ proc[p].pc = "roles"
    /\ LET r == proc[p]
       IN IF r.op = "assign"
          THEN IF has_role(r.target, r.role)
               THEN Respond(p, r, 400, "already has the role")
               ELSE Goto(p, r, "as_commit")
          ELSE IF has_role(r.target, r.role)
               THEN Goto(p, r, "rv_delete")
               ELSE Respond(p, r, 400, "does not have the role")
    /\ UNCHANGED <<dbVars, cache, envVars, logVars, left>>

\* api/v1/role.py:56-59
as_commit(p) ==
    /\ proc[p].pc = "as_commit"
    /\ userRole' = assign_role(userRole, proc[p].target, proc[p].role)
    /\ Respond(p, proc[p], 200, "ok")
    /\ UNCHANGED <<users, oauthLink, history, cache, envVars, logVars, left>>

\* RoleService.revoke_role (services/role.py:66-68): every matching row goes.
revoke_role(ur, login, role) == [ur EXCEPT ![login][role] = 0]

\* api/v1/role.py:101, 108-110
rv_delete(p) ==
    /\ proc[p].pc = "rv_delete"
    /\ userRole' = revoke_role(userRole, proc[p].target, proc[p].role)
    /\ Respond(p, proc[p], 200, "ok")
    /\ UNCHANGED <<users, oauthLink, history, cache, envVars, logVars, left>>

\* api/v1/user.py:275-278
hs_list(p) ==
    /\ proc[p].pc = "hs_list"
    /\ Respond(p, [proc[p] EXCEPT !.rows = history[proc[p].target]], 200, "ok")
    /\ UNCHANGED <<dbVars, cache, envVars, logVars, left>>

\* ------------------------------------------------------ specification
\* The store after the migrations and utils/create_superuser.py: the
\* seeded roles and provider, one superuser, nobody signed in.
InitStore ==
    /\ users = [l \in Logins |->
                  IF l = SuperLogin
                  THEN [exists |-> TRUE, is_superuser |-> TRUE,
                        password |-> generate_password_hash(SuperPassword)]
                  ELSE [exists |-> FALSE, is_superuser |-> FALSE,
                        password |-> NoHash]]
    /\ userRole = [l \in Logins |-> ZeroRoles]
    /\ oauthLink = [e \in Emails |-> None]
    /\ history = [l \in Logins |-> 0]
    /\ cache = {}
    /\ now = 0
    /\ proc = [p \in Procs |-> Idle]
    /\ issued = {}
    /\ signedOut = {}
    /\ ticks = 0
    /\ limits = [a \in Addrs |-> [o \in GatewayOps |-> NoWindow]]
    /\ net = [a \in Addrs |-> [o \in GatewayOps |-> NoCalls]]
    /\ mongo = [users |-> [u \in Logins |-> NoDoc],
                films |-> [f \in FilmIds |-> NoDoc],
                reviews |-> {}]
    /\ kafka = {}

Init == InitStore /\ left = MaxRequests

SignupSteps(p) ==
    su_get(p) \/ su_cu_get(p) \/ su_cu_commit(p) \/ su_assign(p)

SigninSteps(p) == si_get(p) \/ si_set(p) \/ si_hist(p)

OauthSteps(p) ==
    \/ si_oauth_get(p) \/ si_cu_get(p) \/ si_cu_commit(p) \/ si_assign(p)
    \/ si_reget(p) \/ si_ocu_get(p) \/ si_ocu_commit(p)

TokenSteps(p) == rf_get(p) \/ rf_user(p) \/ so_del(p) \/ vf_get(p)

BearerSteps(p) == gcu(p) \/ target(p)

RoleSteps(p) == roles(p) \/ as_commit(p) \/ rv_delete(p)

\* Every endpoint, two concurrent requests.
Next ==
    \/ \E p \in Procs :
          \/ StartSignup(p) \/ StartSignin(p) \/ StartOauthSignin(p)
          \/ StartRefresh(p) \/ StartSignout(p) \/ StartVerify(p)
          \/ StartAssign(p) \/ StartRevoke(p) \/ StartHistory(p)
    \/ \E p \in Procs :
          \/ SignupSteps(p) \/ SigninSteps(p) \/ OauthSteps(p)
          \/ TokenSteps(p) \/ BearerSteps(p) \/ RoleSteps(p) \/ hs_list(p)
    \/ Tick

Spec == Init /\ [][Next]_vars

\* The token lifecycle: password sign-in, refresh, sign-out, verify and a
\* bearer-authenticated endpoint, two concurrent requests.
NextSession ==
    \/ \E p \in Procs :
          \/ StartSignin(p) \/ StartRefresh(p) \/ StartSignout(p)
          \/ StartVerify(p) \/ StartHistory(p)
    \/ \E p \in Procs :
          \/ SigninSteps(p) \/ TokenSteps(p) \/ BearerSteps(p) \/ hs_list(p)
    \/ Tick

InitSession == InitStore /\ left = MaxSessionRequests

SpecSession == InitSession /\ [][NextSession]_vars

\* Identity resolution: sign-up, password and OAuth sign-in, two
\* concurrent requests.  None of these reads the clock except to stamp the
\* tokens it signs, so the clock stands still here.
NextIdentity ==
    \/ \E p \in Procs :
          StartSignup(p) \/ StartSignin(p) \/ StartOauthSignin(p)
    \/ \E p \in Procs : SignupSteps(p) \/ SigninSteps(p) \/ OauthSteps(p)

SpecIdentity == Init /\ [][NextIdentity]_vars

\* Every endpoint, one request at a time, within one second.
InitSeq == InitStore /\ left = MaxSeqRequests

NextSeq ==
    \/ \E p \in {"p1"} :
          \/ StartSignup(p) \/ StartSignin(p) \/ StartOauthSignin(p)
          \/ StartRefresh(p) \/ StartSignout(p) \/ StartVerify(p)
          \/ StartAssign(p) \/ StartRevoke(p) \/ StartHistory(p)
    \/ \E p \in {"p1"} :
          \/ SignupSteps(p) \/ SigninSteps(p) \/ OauthSteps(p)
          \/ TokenSteps(p) \/ BearerSteps(p) \/ RoleSteps(p) \/ hs_list(p)

SpecSeq == InitSeq /\ [][NextSeq]_vars

\* Issuance with failing stores: sign-up, password and OAuth sign-in and
\* refresh, two concurrent requests, any await on a store may raise.
InitFault == InitStore /\ left = MaxFaultRequests

NextFault ==
    \/ \E p \in Procs :
          \/ StartSignup(p) \/ StartSignin(p) \/ StartOauthSignin(p)
          \/ StartRefresh(p)
    \/ \E p \in Procs :
          \/ SignupSteps(p) \/ SigninSteps(p) \/ OauthSteps(p)
          \/ rf_get(p) \/ rf_user(p)
    \/ \E p \in Procs : StoreError(p)

SpecFault == InitFault /\ [][NextFault]_vars

\* Roles and the tokens that carry them: password and OAuth sign-in,
\* refresh, verify and the superuser's assign and revoke, two concurrent
\* requests.
InitGrant == InitStore /\ left = MaxGrantRequests

NextGrant ==
    \/ \E p \in Procs :
          \/ StartSignin(p) \/ StartOauthSignin(p) \/ StartRefresh(p)
          \/ StartVerify(p) \/ StartAssign(p) \/ StartRevoke(p)
    \/ \E p \in Procs :
          \/ SigninSteps(p) \/ OauthSteps(p) \/ rf_get(p) \/ rf_user(p)
          \/ vf_get(p) \/ BearerSteps(p) \/ RoleSteps(p)

SpecGrant == InitGrant /\ [][NextGrant]_vars

\* The access token's lifetime: password sign-in and verify, two
\* concurrent requests, while the clock moves up to and past the expiry.
InitClock == InitStore /\ left = MaxClockRequests

NextClock ==
    \/ \E p \in Procs : StartSignin(p) \/ StartVerify(p)
    \/ \E p \in Procs : SigninSteps(p) \/ vf_get(p)
    \/ Elapse(AccessJumps, MaxClockTicks)

SpecClock == InitClock /\ [][NextClock]_vars

\* The refresh token's lifetime: password sign-in and refresh, two
\* concurrent requests, while the clock moves up to and past the expiry.
NextExpiry ==
    \/ \E p \in Procs : StartSignin(p) \/ StartRefresh(p)
    \/ \E p \in Procs : SigninSteps(p) \/ rf_get(p) \/ rf_user(p)
    \/ Elapse(RefreshJumps, MaxExpiryTicks)

SpecExpiry == InitClock /\ [][NextExpiry]_vars

\* The X-Request-Id header: sign-up, password sign-in and sign-out with
\* and without it, one request at a time.
InitHeader == InitStore /\ left = MaxHeaderRequests

NextHeader ==
    \/ \E p \in {"p1"} : StartSignin(p) \/ Headless(p)
    \/ \E p \in {"p1"} : SignupSteps(p) \/ SigninSteps(p) \/ so_del(p)

SpecHeader == InitHeader /\ [][NextHeader]_vars

\* The retry loop: gateway calls of both operations, two concurrent
\* requests.
InitBackoff == InitStore /\ left = MaxBackoffRequests

NextBackoff ==
    \/ \E p \in Procs : StartGateway(p, GatewayOps)
    \/ \E p \in Procs : gw_limit(p) \/ gw_call(p) \/ gw_sleep(p)

SpecBackoff == InitBackoff /\ [][NextBackoff]_vars

\* An awaited httpx call returns or raises (httpx times out by itself) and
\* asyncio.sleep returns: no gateway task stays suspended for ever.
SpecBackoffFair ==
    /\ SpecBackoff
    /\ \A p \in Procs :
          /\ WF_vars(gw_limit(p))
          /\ WF_vars(gw_call(p))
          /\ WF_vars(gw_sleep(p))

\* The rate limit: profile fetches from two addresses, one at a time,
\* more of them than a minute admits.
InitLimiter == InitStore /\ left = MaxLimiterRequests

NextLimiter ==
    \/ \E p \in {"p1"} : StartGateway(p, {"get_user_info"})
    \/ \E p \in {"p1"} : gw_limit(p) \/ gw_call(p) \/ gw_sleep(p)
    \/ Elapse(LimiterJumps, MaxLimiterTicks)

SpecLimiter == InitLimiter /\ [][NextLimiter]_vars

\* =================================================================
\* Properties
\* =================================================================
OnlyDefaultRole == [r \in Roles |-> IF r = default_role THEN 1 ELSE 0]

Finished(p, op) == proc[p].op = op /\ proc[p].pc = "done"

\* The task of slot p, at one of the places in pcs, takes its step.
Moves(p, pcs) == proc[p].pc \in pcs /\ proc'[p] # proc[p]

BearerOps == {"assign", "revoke", "history"}

\* The credential of the request was accepted: refresh and verify answered
\* 200; get_current_user returned a user to a bearer-authenticated endpoint.
Accepted(p) ==
    \/ proc[p].op \in {"refresh", "verify"} /\ proc[p].pc = "done"
         /\ proc[p].status = 200
    \/ proc[p].op \in BearerOps /\ proc[p].cur # NoUser

\* The responses the error taxonomy counts as InvalidRefreshToken.
InvalidRefreshToken(r) ==
    /\ r.pc = "done"
    /\ r.status = 400
    /\ r.detail \in {"Refresh token not found", "Invalid refresh token",
                     "Invalid credentials"}
    /\ r.at = NoToken

\* C1: once sign_out(t) has been answered, every refresh(t) request that
\* starts afterwards fails with InvalidRefreshToken and issues no access
\* token (the registration itself, t live once sign_in has written it, is
\* the step si_set).
C1_RevokedRefreshFails ==
    \A p \in Procs :
        Finished(p, "refresh") /\ proc[p].after_signout
            => InvalidRefreshToken(proc[p])

\* C2: no credential-checking operation accepts a refresh token presented
\* after its sign_out was answered: refresh, verify and the
\* bearer-authenticated endpoints all reject it.
C2_RevokedTokenRejected ==
    \A p \in Procs :
        proc[p].after_signout /\ proc[p].tok.sup = "refresh" => ~Accepted(p)

\* C3: refresh(t) goes on to issue an access token exactly when t is in the
\* registry, its signature and expiry verify and its kind is refresh (and
\* then succeeds exactly when the subject's user exists); every other
\* outcome is InvalidRefreshToken.
C3_RefreshIffUsable ==
    [][\A p \in Procs :
         LET t == proc[p].tok
             usable == /\ \E e \in cache : e.key = t /\ e.until > now
                       /\ t.sig = "HS256" /\ t.exp > now
                       /\ t.sup = "refresh"
         IN /\ Moves(p, {"rf_get"}) =>
                 IF usable THEN proc'[p].pc = "rf_user"
                 ELSE InvalidRefreshToken(proc'[p])
            /\ Moves(p, {"rf_user"}) =>
                 IF users[t.sub].exists
                 THEN proc'[p].pc = "done" /\ proc'[p].status = 200
                 ELSE InvalidRefreshToken(proc'[p])]_vars

C3_Witness ==
    \E p, q \in Procs :
        /\ Finished(p, "refresh") /\ proc[p].status = 200
        /\ Finished(q, "refresh") /\ proc[q].status = 400
        /\ proc[q].tok.sup = "refresh" /\ proc[q].tok.sig = "HS256"

\* C4: every operation that accepts a token accepts only its own kind:
\* verify and the bearer-authenticated endpoints a token of kind access,
\* refresh a token of kind refresh.
C4_KindChecked ==
    \A p \in Procs :
        Accepted(p) =>
            proc[p].tok.sup = (IF proc[p].op = "refresh" THEN "refresh"
                               ELSE "access")

\* C5: a successful refresh(t) answers with the string t itself and an
\* access token signed at that moment for t's subject, and no step of a
\* refresh request changes the registry, the credential store or the
\* login history.
C5_RefreshFrame ==
    [][\A p \in Procs :
         Moves(p, {"rf_get", "rf_user"}) =>
            /\ UNCHANGED <<users, userRole, oauthLink, history, cache>>
            /\ proc'[p].status = 200 =>
                 /\ proc'[p].rt = proc[p].tok
                 /\ proc'[p].at = [sub |-> proc[p].tok.sub, sup |-> "access",
                                   exp |-> now + AccessTtl,
                                   roles |-> userRole[proc[p].tok.sub],
                                   sig |-> "HS256"]
                 /\ proc'[p].at \in issued']_vars

C5_Witness ==
    \E p \in Procs :
        /\ Finished(p, "refresh") /\ proc[p].status = 200
        /\ proc[p].rt = proc[p].tok
        /\ \E e \in cache : e.key = proc[p].tok

\* C6: sign_up(login, password) of an unregistered login directly followed
\* by sign_in(login, password) succeeds and returns that user with exactly
\* the default role.
C6_SignupThenSignin ==
    \A p \in Procs :
        Finished(p, "signin") /\ proc[p].after_signup =>
            /\ proc[p].status = 200
            /\ proc[p].user.login = proc[p].login
            /\ proc[p].roles = OnlyDefaultRole
            /\ proc[p].at.sub = proc[p].login

C6_Witness ==
    \E p \in Procs :
        Finished(p, "signin") /\ proc[p].after_signup /\ proc[p].status = 200

C9_AdoptsLinkedUser ==
    \A p \in Procs :
        Finished(p, "signin") /\ proc[p].ouser # None /\ proc[p].user = NoUser
            => proc[p].status = 200 /\ proc[p].at.sub = proc[p].ouser

SigninPcs == {"si_get", "si_oauth_get", "si_cu_get", "si_cu_commit",
              "si_assign", "si_reget", "si_ocu_get", "si_ocu_commit",
              "si_set", "si_hist"}

\* C11: an OAuth sign_in for a remote email bound to nobody, with a login
\* that no user has, creates exactly one user, holding exactly the default
\* role, and exactly one LinkedIdentity bound to it, and answers as that
\* user; the same sign_in repeated directly afterwards writes no user,
\* role-assignment or LinkedIdentity row and answers as the same user.
C11_OauthCreatesOnce ==
    /\ [](\A p \in Procs :
            LET r == proc[p]
            IN /\ Finished(p, "signin") /\ r.fresh /\ r.provider = "yandex" =>
                    /\ r.status = 200
                    /\ users[r.login].exists
                    /\ userRole[r.login] = OnlyDefaultRole
                    /\ oauthLink[r.info] = r.login
                    /\ r.at.sub = r.login /\ r.roles = OnlyDefaultRole
               /\ Finished(p, "signin") /\ r.after_fresh =>
                    /\ r.status = 200
                    /\ r.at.sub = r.login /\ r.user.login = r.login
                    /\ r.roles = OnlyDefaultRole)
    /\ [][\A p \in Procs :
            LET r == proc[p]
            IN /\ Moves(p, SigninPcs) /\ r.fresh =>
                    /\ \A l \in Logins \ {r.login} :
                          users'[l] = users[l] /\ userRole'[l] = userRole[l]
                    /\ \A e \in Emails \ {r.info} :
                          oauthLink'[e] = oauthLink[e]
               /\ Moves(p, SigninPcs) /\ r.after_fresh =>
                    UNCHANGED <<users, userRole, oauthLink>>]_vars

C11_Witness ==
    \E p \in Procs :
        /\ Finished(p, "signin") /\ proc[p].after_fresh
        /\ proc[p].status = 200
        /\ oauthLink[proc[p].info] = proc[p].login
        /\ userRole[proc[p].login] = OnlyDefaultRole

\* C12: in every reachable state each (user, role) pair has at most one
\* RoleAssignment row, whatever the interleaving of sign_up, OAuth sign_in
\* and role assign / revoke requests.
C12_AtMostOneAssignment ==
    \A l \in Logins, ro \in Roles : userRole[l][ro] <= 1

\* C13: of two sign_up requests for the same unregistered login, one
\* succeeds and the other is answered with the AlreadyExists conflict
\* (409), and the user keeps the winner's password hash and exactly the
\* default role assignment.
C13_OneSignupWins ==
    \A p, q \in Procs :
        /\ p # q
        /\ Finished(p, "signup") /\ Finished(q, "signup")
        /\ proc[p].login = proc[q].login
        /\ proc[p].status = 200
        => /\ proc[q].status = 409
           /\ users[proc[p].login].exists
           /\ users[proc[p].login].password
                 = generate_password_hash(proc[p].password)
           /\ userRole[proc[p].login] = OnlyDefaultRole

\* A request that has inserted the user l and has its assign_role still
\* ahead of it.
AssignPending(l) ==
    \E p \in Procs :
        proc[p].pc \in {"su_assign", "si_assign"} /\ proc[p].login = l

\* C14: every user created by sign_up or OAuth sign_in holds the default
\* role assignment, also after a request was aborted by a store error at
\* any step (the only states excepted are those in which the creating
\* request is still between its two commits).
C14_CreatedUserHasDefaultRole ==
    \A l \in Logins \ {SuperLogin} :
        users[l].exists /\ ~AssignPending(l) => userRole[l][default_role] >= 1

\* C15: when the registry write of a sign_in fails, the sign_in fails, the
\* failing step appends no login-history row and registers nothing, and
\* the refresh token string signed in that request is never accepted by
\* refresh.
C15_FailsClosed ==
    /\ [](\A p, q \in Procs :
            Finished(p, "signin") /\ proc[p].failed = "si_set" =>
               /\ proc[p].status = 500
               /\ Finished(q, "refresh") /\ proc[q].tok = proc[p].rt
                    => proc[q].status # 200)
    /\ [][\A p \in Procs :
            Moves(p, {"si_set"}) /\ proc'[p].failed = "si_set" =>
               UNCHANGED <<history, cache, issued>>]_vars

\* The position of each place of a sign-in task in the handler's text.
SigninRank ==
    [si_get |-> 1, si_oauth_get |-> 2, si_cu_get |-> 3, si_cu_commit |-> 4,
     si_assign |-> 5, si_reget |-> 6, si_ocu_get |-> 7, si_ocu_commit |-> 8,
     si_set |-> 9, si_hist |-> 10, done |-> 11]

\* C16: within one sign_in request the writes occur in a fixed order: the
\* user row, the default role assignment and the LinkedIdentity in the
\* credential store, then the refresh-token registration in the registry,
\* last the login-history row.  Each write is made by its own step, the
\* steps are passed in that order only, and a step finds the writes of the
\* earlier ones completed.
C16_WritesInOrder ==
    [][\A p \in Procs :
         LET r == proc[p]
         IN Moves(p, SigninPcs) =>
              /\ SigninRank[proc'[p].pc] > SigninRank[r.pc]
              /\ users' # users => r.pc = "si_cu_commit"
              /\ userRole' # userRole => r.pc = "si_assign"
              /\ oauthLink' # oauthLink => r.pc = "si_ocu_commit"
              /\ cache' # cache => r.pc = "si_set"
              /\ history' # history => r.pc = "si_hist"
              /\ r.pc = "si_assign" => users[r.login].exists
              /\ r.pc = "si_ocu_commit" => users[r.user.login].exists
              /\ r.pc = "si_set" =>
                    /\ users[r.user.login].exists
                    /\ r.info # None => oauthLink[r.info] # None
              /\ r.pc = "si_hist" =>
                    \E e \in cache : e.key = r.rt /\ e.until > now]_vars

C16_Witness ==
    \E p \in Procs :
        /\ Finished(p, "signin") /\ proc[p].fresh /\ proc[p].status = 200
        /\ users[proc[p].login].exists
        /\ userRole[proc[p].login][default_role] >= 1
        /\ oauthLink[proc[p].info] = proc[p].login
        /\ \E e \in cache : e.key = proc[p].rt
        /\ history[proc[p].login] >= 1

\* The request of slot p is answered in this step: a sign_in, with 200.
SigninSucceeds(p) ==
    /\ proc[p].op = "signin" /\ proc[p].pc # "done"
    /\ proc'[p].pc = "done" /\ proc'[p].status = 200

\* C17: the login-history rows of a user are as many as the sign_in
\* requests answered 200 for that user: the step that answers a sign_in
\* with 200 appends exactly one row, for the user it answers with, and no
\* other step (failed sign_in, refresh, verify, sign_out or any other
\* request) changes the history of any user.
C17_OneRowPerSignin ==
    [][/\ \A p \in Procs :
             SigninSucceeds(p) =>
                /\ proc'[p].at.sub = proc'[p].user.login
                /\ history' = [history EXCEPT ![proc'[p].user.login] = @ + 1]
       /\ history' # history => \E p \in Procs : SigninSucceeds(p)]_vars

C17_Witness ==
    \E p \in Procs :
        /\ Finished(p, "signin") /\ proc[p].status = 200
        /\ history[proc[p].user.login] = 2

\* C18: sign_out(t) is answered 204 for every string t, live, already
\* signed out, expired, or never issued; it leaves no registry entry for
\* t, removes no other entry and adds none (so a second sign_out(t)
\* leaves the registry as the first one left it), and it writes nothing
\* else.
C18_SignoutIdempotent ==
    [][\A p \in Procs :
         Moves(p, {"so_del"}) =>
            /\ proc'[p].pc = "done" /\ proc'[p].status = 204
            /\ \A e \in cache' : e.key # proc[p].tok
            /\ \A e \in cache : e.key # proc[p].tok => e \in cache'
            /\ cache' \subseteq cache
            /\ UNCHANGED <<users, userRole, oauthLink, history, issued>>]_vars

C18_Witness ==
    \E p \in Procs :
        /\ Finished(p, "signout") /\ proc[p].after_signout
        /\ proc[p].status = 204
        /\ proc[p].tok.sup = "refresh" /\ proc[p].tok.sig = "HS256"
        /\ \A e \in cache : e.key # proc[p].tok

\* The request of slot p signs an access token in this step.
SignsAccessToken(p) ==
    /\ proc[p].op \in {"signin", "refresh"}
    /\ proc[p].at = NoToken /\ proc'[p].at # NoToken

\* C19: the roles embedded in an access token are exactly the role
\* assignments its subject has at the moment sign_in or refresh signs it;
\* a token once handed out stays as it is, whatever is assigned or
\* revoked afterwards.
C19_RolesAtIssuance ==
    [][/\ \A p \in Procs :
             SignsAccessToken(p) =>
                proc'[p].at.roles = userRole[proc'[p].at.sub]
       /\ issued \subseteq issued']_vars

\* C20: verify_access(t) for a valid access token (signature, expiry,
\* kind access) of an existing user is answered 200 with the roles
\* assigned to the subject in the credential store at the time of the
\* call, also when they differ from the roles embedded in t.
C20_VerifyLiveRoles ==
    [][\A p \in Procs :
         LET t == proc[p].tok
         IN Moves(p, {"vf_get"}) /\ t.sig = "HS256" /\ t.exp > now
              /\ t.sup = "access" /\ users[t.sub].exists
            => /\ proc'[p].pc = "done" /\ proc'[p].status = 200
               /\ proc'[p].user.login = t.sub
               /\ proc'[p].roles = userRole[t.sub]
               /\ UNCHANGED <<dbVars, cache, issued>>]_vars

C20_Witness ==
    \E p \in Procs :
        /\ Finished(p, "verify") /\ proc[p].status = 200
        /\ proc[p].roles # proc[p].tok.roles
        /\ proc[p].roles = userRole[proc[p].tok.sub]

\* C21: every access token is signed with kind access and an expiry of
\* exactly access_ttl (access_token_expire_in_minutes * 60 seconds) after
\* the moment of signing; verify answers 200 for it up to one second
\* before that expiry and refuses it from one second after it.
C21_AccessLifetime ==
    /\ [](\A p \in Procs :
            LET r == proc[p]
            IN Finished(p, "verify") /\ r.tok.sig = "HS256"
                 /\ r.tok.sup = "access" =>
                  /\ r.seen <= r.tok.exp - 1 => r.status = 200
                  /\ r.seen >= r.tok.exp + 1 => r.status # 200)
    /\ [][\A p \in Procs :
            SignsAccessToken(p) =>
               /\ proc'[p].at.sup = "access"
               /\ proc'[p].at.exp = now + access_token_expire_in_minutes * 60
               /\ proc'[p].at.sig = "HS256"]_vars

C21_Witness ==
    \E p, q \in Procs :
        /\ Finished(p, "verify") /\ Finished(q, "verify")
        /\ proc[p].tok = proc[q].tok /\ proc[p].tok \in issued
        /\ proc[p].tok.sup = "access"
        /\ proc[p].seen = proc[p].tok.exp - 1 /\ proc[p].status = 200
        /\ proc[q].seen = proc[q].tok.exp + 1 /\ proc[q].status = 400

\* C22: sign_in registers the refresh token string with a TTL of
\* refresh_token_expire_in_days * 86400 seconds, the lifetime the string
\* is signed with; an entry is in the registry only while its TTL runs,
\* and a refresh presenting the string, never signed out, succeeds up to
\* one second before the expiry and fails from the expiry on.
C22_RegistryLifetime ==
    /\ [](/\ \A e \in cache : now < e.until
          /\ \A p \in Procs :
                LET r == proc[p]
                IN Finished(p, "refresh") /\ r.tok.sig = "HS256"
                     /\ r.tok.sup = "refresh" /\ r.tok \notin signedOut =>
                      /\ r.seen <= r.tok.exp - 1 => r.status = 200
                      /\ r.seen >= r.tok.exp => r.status = 400)
    /\ [][\A p \in Procs :
            /\ Moves(p, {"si_set"}) =>
                  LET e == CHOOSE e \in cache' : e.key = proc[p].rt
                  IN e.until = now + refresh_token_expire_in_days * 86400
            /\ Moves(p, {"si_get"}) /\ proc'[p].pc = "si_set" =>
                  /\ proc'[p].rt.sup = "refresh"
                  /\ proc'[p].rt.exp =
                        now + refresh_token_expire_in_days * 86400]_vars

C22_Witness ==
    \E p, q \in Procs :
        /\ Finished(p, "refresh") /\ Finished(q, "refresh")
        /\ proc[p].tok = proc[q].tok /\ proc[p].tok \in issued
        /\ proc[p].tok.sup = "refresh" /\ proc[p].tok \notin signedOut
        /\ proc[p].seen = proc[p].tok.exp - 1 /\ proc[p].status = 200
        /\ proc[q].seen = proc[q].tok.exp /\ proc[q].status = 400
        /\ proc[q].detail = "Refresh token not found"
        /\ \A e \in cache : e.key # proc[q].tok

\* C23: an OAuth sign_in that names a provider for which no adapter is
\* registered is answered 404 "Provider service not available.", whatever
\* the provider would have said about the token, in the handler's first
\* step, which writes nothing to the credential store or the registry.
C23_UnknownProvider ==
    /\ [](\A p \in Procs :
            LET r == proc[p]
            IN Finished(p, "signin") /\ r.info # None
                 /\ (\A s \in oauth_services : lower(r.provider) # s)
                 /\ r.failed = None =>
                  r.status = 404 /\ r.detail = "Provider service not available.")
    /\ [][\A p \in Procs :
            LET r == proc[p]
            IN Moves(p, SigninPcs) /\ r.info # None
                 /\ (\A s \in oauth_services : lower(r.provider) # s) =>
                  /\ r.pc = "si_get" /\ proc'[p].pc = "done"
                  /\ UNCHANGED <<dbVars, cache, limits, net, issued>>]_vars

C23_Witness ==
    \E p \in Procs :
        /\ Finished(p, "signin") /\ proc[p].provider = "github"
        /\ proc[p].info \in Emails /\ proc[p].status = 404
        /\ oauthLink[proc[p].info] = None

\* A gateway call is under way in slot p.
InGateway(p) == proc[p].pc \in {"gw_limit", "gw_call", "gw_sleep"}

\* C24: a gateway call under the backoff loop invokes the wrapped request
\* at most errors_max times; it invokes it again only after an invocation
\* raised a transport error (httpx.RequestError); an HTTPException raised
\* by an invocation ends the call at once with that error; and every call
\* comes to an end.
C24_BoundedRetry ==
    /\ [](\A p \in Procs : proc[p].calls <= errors_max)
    /\ [][\A p \in Procs :
            /\ proc[p].calls >= 1 /\ proc'[p].calls = proc[p].calls + 1 =>
                  /\ proc[p].pc = "gw_sleep"
                  /\ proc[p].raised = "RequestError"
            /\ Moves(p, {"gw_call"})
                  /\ proc'[p].raised \in {"HTTPException", "ValueError"} =>
                  /\ proc'[p].pc = "done"
                  /\ proc'[p].calls = proc[p].calls
                  /\ proc'[p].raised = "HTTPException" =>
                        proc'[p].status = 400]_vars
    /\ \A p \in Procs : InGateway(p) ~> proc[p].pc = "done"

C24_Witness ==
    \E p, q \in Procs :
        /\ Finished(p, "get_access_token") /\ proc[p].calls = errors_max
        /\ proc[p].raised = "reply" /\ proc[p].status = 200
        /\ Finished(q, "get_user_info") /\ proc[q].calls = 1
        /\ proc[q].raised = "HTTPException" /\ proc[q].status = 400

\* C25: a gateway call whose errors_max invocations all raised a
\* transport error is answered with one of the statuses the error kinds
\* map to (not-found, bad-request, conflict, forbidden, unauthorized,
\* gateway-timeout), not with the 500 of an exception nobody handles.
C25_UpstreamUnavailable ==
    \A p \in Procs :
        LET r == proc[p]
        IN r.pc = "done" /\ r.op \in GatewayOps /\ r.calls = errors_max
             /\ r.raised = "RequestError" =>
              /\ r.status \in {404, 400, 409, 403, 401, 504}
              /\ r.detail # "Internal Server Error"

C27_DuplicateAssign ==
    /\ [](\A p \in Procs :
            Finished(p, "assign") /\ proc[p].status = 200 =>
               userRole[proc[p].target][proc[p].role] = 1)
    /\ [][\A p \in Procs :
            LET r == proc[p]
            IN /\ Moves(p, {"roles"}) /\ r.op = "assign" =>
                    IF userRole[r.target][r.role] >= 1
                    THEN /\ proc'[p].pc = "done" /\ proc'[p].status = 400
                         /\ proc'[p].detail = "already has the role"
                         /\ UNCHANGED dbVars
                    ELSE proc'[p].pc = "as_commit" /\ UNCHANGED dbVars
               /\ Moves(p, {"as_commit"}) =>
                    /\ proc'[p].status = 200
                    /\ userRole' = [userRole EXCEPT ![r.target][r.role] = @ + 1]
                    /\ UNCHANGED <<users, oauthLink, history>>]_vars

C27_Witness ==
    \E p \in Procs :
        /\ Finished(p, "assign") /\ proc[p].status = 400
        /\ proc[p].detail = "already has the role"
        /\ proc[p].role = "admin"
        /\ userRole[proc[p].target]["admin"] = 1

\* C28: an assign or revoke request whose bearer token authenticates an
\* existing user who is not a superuser is answered 403 and changes no
\* table; a userrole row is added or removed only by the commit of an
\* assign or revoke request whose token authenticated a superuser, or as
\* the default role by the request that creates the account.
C28_SuperuserOnly ==
    [][/\ \A p \in Procs :
            LET r == proc[p]
            IN Moves(p, {"gcu"}) /\ r.op \in {"assign", "revoke"}
                 /\ r.tok.sig = "HS256" /\ now < r.tok.exp
                 /\ users[r.tok.sub].exists
                 /\ ~users[r.tok.sub].is_superuser =>
                  /\ proc'[p].pc = "done" /\ proc'[p].status = 403
                  /\ UNCHANGED dbVars
       /\ userRole' # userRole =>
            \E p \in Procs :
               LET r == proc[p]
               IN \/ /\ Moves(p, {"as_commit", "rv_delete"})
                     /\ r.op \in {"assign", "revoke"}
                     /\ r.tok.sig = "HS256"
                     /\ users[r.tok.sub].is_superuser
                     /\ r.cur.login = r.tok.sub
                  \/ /\ Moves(p, {"si_assign", "su_assign"})
                     /\ userRole' =
                          [userRole EXCEPT ![r.login][default_role] = @ + 1]]_vars

C28_Witness ==
    \E p \in Procs :
        /\ Finished(p, "assign") /\ proc[p].status = 403
        /\ proc[p].tok \in issued /\ proc[p].tok.sub = "alice"
        /\ proc[p].cur.login = "alice" /\ proc[p].role = "admin"
        /\ \A l \in Logins : userRole[l]["admin"] = 0

\* C29: a sign_in answered 200 as a user who existed when the request
\* arrived either took the password path (the password matched) or
\* carried the profile of a remote email that was bound to that user when
\* the request arrived.
C29_OwnCredentialOnly ==
    \A p \in Procs :
        LET r == proc[p]
        IN Finished(p, "signin") /\ r.status = 200
             /\ (r.at.sub = r.login => r.known) =>
              \/ r.info = None /\ check_password(r.user, r.password)
              \/ r.info \in Emails /\ r.bound = r.at.sub

\* C30: whatever the interleaving, an OAuth sign_in answered 200 for the
\* remote email E is answered as the user E's LinkedIdentity is bound to,
\* so that two sign-ins for E answered 200 are answered as the same user.
C30_OneUserPerEmail ==
    /\ \A p \in Procs :
          Finished(p, "signin") /\ proc[p].status = 200
            /\ proc[p].info \in Emails =>
              oauthLink[proc[p].info] = proc[p].at.sub
    /\ \A p, q \in Procs :
          /\ Finished(p, "signin") /\ proc[p].status = 200
          /\ Finished(q, "signin") /\ proc[q].status = 200
          /\ proc[p].info \in Emails /\ proc[p].info = proc[q].info
          => proc[p].at.sub = proc[q].at.sub

\* C31: two sign-ins answered 200 never hand out the same refresh token
\* string, also when they are sign-ins of one user within one second, so
\* that revoking or registering one session's string leaves every other
\* session's string as it is.
C31_DistinctRefreshStrings ==
    \A p, q \in Procs :
        /\ p # q
        /\ Finished(p, "signin") /\ proc[p].status = 200
        /\ Finished(q, "signin") /\ proc[q].status = 200
        => proc[p].rt # proc[q].rt

\* C32: a history request is answered with the login history of user U
\* only when the user its bearer token authenticates is U or a superuser;
\* a request for an existing U by anybody else is answered 403 and is
\* given no history row.
C32_OwnHistoryOnly ==
    /\ [](\A p \in Procs :
            LET r == proc[p]
            IN Finished(p, "history") =>
                 /\ r.status = 200 =>
                       r.cur.login = r.target \/ r.cur.is_superuser
                 /\ r.status # 200 => r.rows = 0)
    /\ [][\A p \in Procs :
            LET r == proc[p]
            IN Moves(p, {"target"}) /\ r.op = "history"
                 /\ users[r.target].exists /\ r.cur.login # r.target
                 /\ ~users[r.cur.login].is_superuser =>
                  /\ proc'[p].pc = "done" /\ proc'[p].status = 403
                  /\ proc'[p].rows = 0]_vars

C32_Witness ==
    \E p \in Procs :
        /\ Finished(p, "history") /\ proc[p].status = 403
        /\ proc[p].tok \in issued /\ proc[p].cur.login = "alice"
        /\ proc[p].target = SuperLogin /\ history[SuperLogin] >= 1
        /\ proc[p].rows = 0

\* C33: a request without the X-Request-Id header is answered 400, and no
\* step taken for it changes a table or the registry.
C33_HeaderRequired ==
    /\ [](\A p \in Procs :
            proc[p].pc = "done" /\ ~proc[p].rid => proc[p].status = 400)
    /\ [][\A p \in Procs :
            ~proc[p].rid /\ Moves(p, {"su_get", "su_cu_get", "su_cu_commit",
                                      "su_assign", "so_del"} \cup SigninPcs)
               => UNCHANGED <<dbVars, cache>>]_vars


\* ------------------------------------------- likes service: PermService
\* auth api/v1/user.py:314-320: the keyword arguments verify_token builds
\* its response from.  The primary key of a user row is identified with the
\* row's login.
verify_kwargs(user, rs) ==
    [user_id |-> user.login, login |-> user.login, first_name |-> None,
     last_name |-> None, roles |-> rs]

\* auth schemas/user.py:8-9 and 47-50: the fields of the model.
UserWithRolesResponseFields == {"login", "first_name", "last_name", "roles"}

\* The model built from keyword arguments and serialised as the endpoint's
\* response_model: a key that is no field of the model is dropped.
UserWithRolesResponse(kw) ==
    [f \in (DOMAIN kw) \cap UserWithRolesResponseFields |-> kw[f]]

\* The body of the answer the client of verify receives.
verify_body(r) ==
    IF r.status = 200
    THEN UserWithRolesResponse(verify_kwargs(r.user, r.roles))
    ELSE [detail |-> r.detail]

\* likes services/auth.py:39-63 once the reply is in: an HTTPException
\* raised inside the try block and the KeyError of data["user_id"] are both
\* caught by "except Exception" and raised again as 500.
is_validuser(status, data) ==
    IF status # 200
    THEN [status |-> 500, detail |-> "400: Invalid token or User not authenticated",
          uid |-> None]
    ELSE IF "user_id" \notin DOMAIN data
    THEN [status |-> 500, detail |-> "'user_id'", uid |-> None]
    ELSE IF data["user_id"] = None
    THEN [status |-> 500, detail |-> "400: Invalid token or User not authenticated",
          uid |-> None]
    ELSE [status |-> 200, detail |-> "ok", uid |-> data["user_id"]]

\* likes api/v1/film.py:38 and services/auth.py:39: a likes request
\* presents its access_token to the auth service's verify endpoint.  The
\* client sets no X-Request-Id header itself; whether the proxy between the
\* two services adds one is not decided by the code.
StartValidUser(p) ==
    \E t \in Presentable, h \in BOOLEAN :
        Begin(p, [Idle EXCEPT !.pc = "vf_get", !.op = "is_validuser",
                              !.tok = t, !.rid = h])

\* likes services/auth.py:40-63: the reply of verify is read.
iv_read(p) ==
    /\ proc[p].op = "is_validuser"
    /\ proc[p].pc = "done"
    /\ LET r == proc[p]
           v == is_validuser(r.status, verify_body(r))
       IN proc' = [proc EXCEPT ![p] =
                     [r EXCEPT !.pc = "iv_done", !.vstatus = r.status,
                               !.status = v.status, !.detail = v.detail,
                               !.uid = v.uid]]
    /\ UNCHANGED <<dbVars, cache, envVars, logVars, left>>

\* Sign-ins and likes requests checking their token, one at a time.
InitVerify == InitStore /\ left = MaxVerifyRequests

NextVerify ==
    \/ StartSignup("p1") \/ StartSignin("p1") \/ StartValidUser("p1")
    \/ SignupSteps("p1") \/ SigninSteps("p1") \/ vf_get("p1")
    \/ iv_read("p1")

SpecVerify == InitVerify /\ [][NextVerify]_vars

\* C34: for every access token the verify endpoint accepts (its answer is
\* 200), is_validuser returns the id of the token's user, read from the
\* user_id field of the answer.
C34_ValidUserId ==
    \A p \in Procs :
        (proc[p].op = "is_validuser" /\ proc[p].pc = "iv_done"
            /\ proc[p].vstatus = 200)
        => (proc[p].uid = proc[p].user.login /\ proc[p].status = 200)


\* ------------------------------------------- likes service: LikeService
\* core.content.FILM_VALID_CATEGORIES, as api/v1/film.py:73-84 and 131-142
\* read it: for each list category the field of the User document and the
\* field of the Film document (db/models.py:26-44).
FILM_VALID_CATEGORIES ==
    [like |-> [user_field |-> "liked_films", film_field |-> "likes_count"],
     dislike |-> [user_field |-> "disliked_films",
                  film_field |-> "dislikes_count"],
     favorite |-> [user_field |-> "favorite_films",
                   film_field |-> "favorites_count"]]

ListCategories == DOMAIN FILM_VALID_CATEGORIES

\* The category path parameter: the five of the docstring and another word.
LikesCategories == ListCategories \cup {"rating", "review", "watching"}

\* POST, DELETE and PUT /{film_id}/{category}, by the action each notifies.
Methods == {"add", "remove", "update"}

\* The JSON body of the request has the key its category needs, or not.
Payloads == {"ok", "missing"}

\* film_id in list
In(f, list) == \E i \in DOMAIN list : list[i] = f

\* list.remove(film_id): the first occurrence is taken out.
remove(list, f) ==
    IF ~In(f, list) THEN list
    ELSE LET i == CHOOSE k \in DOMAIN list :
                      list[k] = f /\ \A j \in 1..(k - 1) : list[j] # f
         IN SubSeq(list, 1, i - 1) \o SubSeq(list, i + 1, Len(list))

max(a, b) == IF a >= b THEN a ELSE b

\* Variant: the list is changed whatever it holds.
MayChange_always(list, f, inc) == TRUE

\* services/like.py:70-77: an add goes on if the film is not in the list,
\* a remove if it is.
MayChange(list, f, inc) ==
    IF inc > 0 THEN ~In(f, list) ELSE In(f, list)

\* What get_or_create_user and get_or_create_film would hand out now.
UserNow(u) == IF mongo.users[u].exists THEN mongo.users[u] ELSE User(u)
FilmNow(f) == IF mongo.films[f].exists THEN mongo.films[f] ELSE Film(f)

\* A request of the film router arrives; user_id is what is_validuser
\* returns for its token (api/v1/film.py:38, 113, 170).  Noted for the
\* properties: the user's and the film's documents on arrival, and whether
\* the film is in the list the request is about.
StartFilmStatus(p, us, fs, cs, ms, bs) ==
    \E u \in us, f \in fs, c \in cs, m \in ms, b \in bs :
        Begin(p, [Idle EXCEPT
            !.pc = "lk_route", !.op = "film_status", !.uid = u, !.film = f,
            !.category = c, !.action = m, !.payload = b,
            !.inc = IF m = "remove" THEN 0 - 1 ELSE 1,
            !.had = /\ c \in ListCategories
                    /\ In(f, UserNow(u)[FILM_VALID_CATEGORIES[c].user_field]),
            !.before = [user |-> UserNow(u), film |-> FilmNow(f)]])

\* api/v1/film.py:40-78, 115-136, 172-208: the branch of the category.
lk_route(p) ==
    /\ proc[p].pc = "lk_route"
    /\ LET r == proc[p]
       IN IF r.category \in {"review", "rating"}
          THEN IF r.action # "remove" /\ r.payload = "missing"
               THEN Respond(p, r, 400, "payload is required")
               ELSE Goto(p, r, "lk_user_find")
          ELSE IF r.action = "update"
          THEN Respond(p, r, 400, "Only 'review' and 'rating' can be updated.")
          ELSE IF r.category \notin DOMAIN FILM_VALID_CATEGORIES
          THEN Respond(p, r, 404, "Invalid category.")
          ELSE Goto(p, r, "lk_user_find")
    /\ UNCHANGED <<dbVars, cache, envVars, logVars, left>>

\* services/like.py:20-21
lk_user_find(p) ==
    /\ proc[p].pc = "lk_user_find"
    /\ LET r == [proc[p] EXCEPT !.udoc = mongo.users[proc[p].uid]]
       IN IF r.udoc.exists THEN Goto(p, r, "lk_film_find")
          ELSE Goto(p, r, "lk_user_insert")
    /\ UNCHANGED <<dbVars, cache, envVars, logVars, left>>

\* services/like.py:22-23: the insert; the _id is unique, a second insert
\* of the same id raises DuplicateKeyError, which nothing catches.
lk_user_insert(p) ==
    /\ proc[p].pc = "lk_user_insert"
    /\ LET r == proc[p]
       IN IF mongo.users[r.uid].exists
          THEN /\ Respond(p, r, 500, "Internal Server Error")
               /\ mongo' = mongo
          ELSE /\ mongo' = [mongo EXCEPT !.users[r.uid] = User(r.uid)]
               /\ Goto(p, [r EXCEPT !.udoc = User(r.uid)], "lk_film_find")
    /\ UNCHANGED <<dbVars, cache, now, ticks, limits, kafka, logVars, left>>

\* The work on the two loaded documents up to the next await:
\* services/like.py:63-79 (increment_value), 103-123 (rate_film), 137-152
\* (unrate_film), 170-172 and 204-206 (the review is looked up).
lk_loaded(p, r) ==
    IF r.category = "review" THEN Goto(p, r, "lk_review_find")
    ELSE IF r.category = "rating"
    THEN IF r.action = "remove"
         THEN IF ~In(r.film, r.udoc.rated_films)
              THEN Respond(p, r, 404, "Rated film not found.")
              ELSE Goto(p, [r EXCEPT
                       !.udoc.rated_films = remove(@, r.film),
                       !.fdoc.raiting_count = @ - 1], "lk_user_save")
         ELSE IF In(r.film, r.udoc.rated_films)
              THEN Goto(p, r, "lk_user_save")
              ELSE Goto(p, [r EXCEPT
                       !.udoc.rated_films = Append(@, r.film),
                       !.fdoc.raiting_count = @ + 1], "lk_user_save")
    ELSE LET user_field == FILM_VALID_CATEGORIES[r.category].user_field
         IN IF ~MayChange(r.udoc[user_field], r.film, r.inc)
            THEN Respond(p, r, 400, "Cannot add or remove")
            ELSE Goto(p, [r EXCEPT !.udoc[user_field] =
                             IF r.inc > 0 THEN Append(@, r.film)
                             ELSE remove(@, r.film)], "lk_user_save")

\* services/like.py:33-34, then the caller up to its next await.
lk_film_find(p) ==
    /\ proc[p].pc = "lk_film_find"
    /\ LET r == [proc[p] EXCEPT !.fdoc = mongo.films[proc[p].film]]
       IN IF r.fdoc.exists THEN lk_loaded(p, r)
          ELSE Goto(p, r, "lk_film_insert")
    /\ UNCHANGED <<dbVars, cache, envVars, logVars, left>>

\* services/like.py:35-36, then the caller up to its next await.
lk_film_insert(p) ==
    /\ proc[p].pc = "lk_film_insert"
    /\ LET r == proc[p]
       IN IF mongo.films[r.film].exists
          THEN /\ Respond(p, r, 500, "Internal Server Error")
               /\ mongo' = mongo
          ELSE /\ mongo' = [mongo EXCEPT !.films[r.film] = Film(r.film)]
               /\ lk_loaded(p, [r EXCEPT !.fdoc = Film(r.film)])
    /\ UNCHANGED <<dbVars, cache, now, ticks, limits, kafka, logVars, left>>

\* services/like.py:79-81, 123, 152: user.save() writes the document as
\* this task holds it; then increment_value sets the film's counter.
lk_user_save(p) ==
    /\ proc[p].pc = "lk_user_save"
    /\ LET r == proc[p]
       IN /\ mongo' = [mongo EXCEPT !.users[r.uid] = r.udoc]
          /\ IF r.category \in ListCategories
             THEN LET film_field ==
                          FILM_VALID_CATEGORIES[r.category].film_field
                  IN Goto(p, [r EXCEPT !.fdoc[film_field] =
                                 max(0, @ + r.inc)], "lk_film_save")
             ELSE Goto(p, r, "lk_film_save")
    /\ UNCHANGED <<dbVars, cache, now, ticks, limits, kafka, logVars, left>>

\* services/like.py:82, 124, 153, 189, 215: film.save() writes the document
\* as this task holds it.
lk_film_save(p) ==
    /\ proc[p].pc = "lk_film_save"
    /\ LET r == proc[p]
       IN /\ mongo' = [mongo EXCEPT !.films[r.film] = r.fdoc]
          /\ Goto(p, r, "lk_send")
    /\ UNCHANGED <<dbVars, cache, now, ticks, limits, kafka, logVars, left>>

\* services/like.py:170-172 and 204-208
lk_review_find(p) ==
    /\ proc[p].pc = "lk_review_find"
    /\ LET r == proc[p]
           review == <<r.uid, r.film>> \in mongo.reviews
       IN IF r.action = "remove"
          THEN IF ~review THEN Respond(p, r, 404, "Review not found.")
               ELSE Goto(p, r, "lk_review_delete")
          ELSE IF review THEN Goto(p, r, "lk_review_save")
               ELSE Goto(p, r, "lk_review_insert")
    /\ UNCHANGED <<dbVars, cache, envVars, logVars, left>>

\* services/like.py:175-178: the content and the time of the review are
\* replaced.
lk_review_save(p) ==
    /\ proc[p].pc = "lk_review_save"
    /\ Goto(p, proc[p], "lk_send")
    /\ UNCHANGED <<dbVars, cache, envVars, logVars, left>>

\* services/like.py:180-188
lk_review_insert(p) ==
    /\ proc[p].pc = "lk_review_insert"
    /\ LET r == proc[p]
       IN /\ mongo' = [mongo EXCEPT !.reviews = @ \cup {<<r.uid, r.film>>}]
          /\ Goto(p, [r EXCEPT !.fdoc.reviews_count = @ + 1], "lk_film_save")
    /\ UNCHANGED <<dbVars, cache, now, ticks, limits, kafka, logVars, left>>

\* services/like.py:210-211
lk_review_delete(p) ==
    /\ proc[p].pc = "lk_review_delete"
    /\ LET r == proc[p]
       IN /\ mongo' = [mongo EXCEPT !.reviews = @ \ {<<r.uid, r.film>>}]
          /\ Goto(p, r, "lk_film_refind")
    /\ UNCHANGED <<dbVars, cache, now, ticks, limits, kafka, logVars, left>>

\* services/like.py:213-214: the film is read again; no film is ever
\* deleted, so it is found.
lk_film_refind(p) ==
    /\ proc[p].pc = "lk_film_refind"
    /\ LET r == [proc[p] EXCEPT !.fdoc = mongo.films[proc[p].film]]
       IN Goto(p, [r EXCEPT !.fdoc.reviews_count = max(0, @ - 1)],
               "lk_film_save")
    /\ UNCHANGED <<dbVars, cache, envVars, logVars, left>>

\* ---------------------------------------------- ugc service: the events
\* ugc core/content.py:3-11: the topic of each category.
VALID_CATEGORIES ==
    [dislike |-> "like_events", like |-> "like_events",
     favorite |-> "like_events", rating |-> "rating_events",
     review |-> "review_events", watching |-> "watching_events",
     searching |-> "searching_events"]

\* ugc core/content.py:13-21
VALID_ACTIONS ==
    [dislike |-> {"add", "remove"}, like |-> {"add", "remove"},
     favorite |-> {"add", "remove"}, rating |-> {"add", "update"},
     review |-> {"add", "update", "remove"}, watching |-> {"start", "stop"},
     searching |-> {"query"}]

\* ugc api/v1/api.py:24-30: the pairs the endpoint's documentation lists.
DocumentedActions ==
    [like |-> {"add", "remove"}, dislike |-> {"add", "remove"},
     favorite |-> {"add", "remove"}, rating |-> {"add", "update"},
     review |-> {"add", "update", "remove"},
     watching |-> {"start", "stop", "finish"}, searching |-> {"query"}]

\* The path parameters clients send: the words above and one more category.
UgcCategories == DOMAIN VALID_CATEGORIES \cup {"bookmark"}
UgcActions == {"add", "remove", "update", "start", "stop", "finish", "query"}

\* The topic of the second event (ugc api/v1/api.py:68-71).
USER_ACTIVITY_topic == "user_activity"

\* What producer.send does with an event: it takes it, or it raises
\* (KafkaTimeoutError, a serialisation error, ...).
SendOutcomes == {"sent", "KafkaError"}

\* ugc api/v1/api.py:32-53: the status of a refused request, 200 for one
\* that goes on to the events.
validate(category, action, payload) ==
    IF category \notin DOMAIN VALID_CATEGORIES THEN 404
    ELSE IF action \notin VALID_ACTIONS[category] THEN 404
    ELSE IF payload # "ok" THEN 422
    ELSE 200

\* ugc services/stat.py:24-31: what an invocation of _send_to_kafka ends
\* in.  Whatever producer.send does, "except Exception" prints and the
\* coroutine returns.
send_to_kafka(o) == "reply"

\* An event handed to the producer.
Event(topic, category, action) ==
    [topic |-> topic, category |-> category, action |-> action]

\* POST /{category}/{action} of the ugc service arrives; whether the
\* deployment sets USER_ACTIVITY_topic is not decided by the code.
StartAction(p) ==
    \E c \in UgcCategories, a \in UgcActions, b \in Payloads,
       act \in BOOLEAN :
        Begin(p, [Idle EXCEPT !.pc = "ha_route", !.op = "handle_action",
                              !.category = c, !.action = a, !.payload = b,
                              !.activity = act])

\* ugc api/v1/api.py:32-58
ha_route(p) ==
    /\ proc[p].pc = "ha_route"
    /\ LET r == proc[p]
           st == validate(r.category, r.action, r.payload)
       IN IF st = 404 THEN Respond(p, r, 404, "Invalid category or action")
          ELSE IF st = 422 THEN Respond(p, r, 422, "Invalid payload")
          ELSE Goto(p, r, "ha_send")
    /\ UNCHANGED <<dbVars, cache, envVars, logVars, left>>

\* ugc services/stat.py:15-31 under the loop of
\* likes/src/utils/backoff.py:29-42, then ugc api/v1/api.py:68-78: one
\* invocation of _send_to_kafka for log_event, one for log_user_activity.
ha_send(p) ==
    /\ proc[p].pc = "ha_send"
    /\ \E o \in SendOutcomes :
          LET r == proc[p]
              x == send_to_kafka(o)
              topic == IF r.calls = 0 THEN VALID_CATEGORIES[r.category]
                       ELSE USER_ACTIVITY_topic
              q == [r EXCEPT !.calls = @ + 1,
                             !.raised = IF o = "sent" THEN @ ELSE o]
          IN /\ kafka' = IF o = "sent"
                         THEN kafka \cup {Event(topic, r.category, r.action)}
                         ELSE kafka
             /\ IF ShouldRetry(x)
                THEN IF MayRetry(r.attempt + 1)
                     THEN Goto(p, [r EXCEPT !.attempt = @ + 1,
                                            !.raised = o], "ha_send")
                     ELSE Respond(p, q, 500, "Server error")
                ELSE IF x # "reply" THEN Respond(p, q, 500, "Server error")
                ELSE IF r.activity /\ r.calls = 0
                THEN Goto(p, [q EXCEPT !.attempt = 0], "ha_send")
                ELSE Respond(p, q, 200, "Action performed")
    /\ UNCHANGED <<dbVars, cache, now, ticks, limits, mongo, logVars, left>>

\* likes services/ugc.py:30-66 and the return of the film handler: the
\* notification is posted to the ugc service, whose handler runs as above;
\* whatever the answer, send_stat returns and the likes request is
\* answered with its success message.
lk_send(p) ==
    /\ proc[p].pc = "lk_send"
    /\ \E o \in SendOutcomes, act \in BOOLEAN :
          LET r == proc[p]
              st == validate(r.category, r.action, "ok")
              events == IF st # 200 \/ send_to_kafka(o) # "reply" \/ o # "sent"
                        THEN {}
                        ELSE {Event(VALID_CATEGORIES[r.category],
                                    r.category, r.action)}
                             \cup IF act
                                  THEN {Event(USER_ACTIVITY_topic,
                                              r.category, r.action)}
                                  ELSE {}
          IN /\ kafka' = kafka \cup events
             /\ Respond(p, [r EXCEPT !.vstatus = st, !.sent = events # {}],
                        200, "successfully")
    /\ UNCHANGED <<dbVars, cache, now, ticks, limits, mongo, logVars, left>>

ListSteps(p) ==
    \/ lk_route(p) \/ lk_user_find(p) \/ lk_user_insert(p)
    \/ lk_film_find(p) \/ lk_film_insert(p) \/ lk_user_save(p)
    \/ lk_film_save(p) \/ lk_send(p)

ReviewSteps(p) ==
    \/ lk_review_find(p) \/ lk_review_save(p) \/ lk_review_insert(p)
    \/ lk_review_delete(p) \/ lk_film_refind(p)

\* Adds and removes of the list categories, one request at a time.
InitLikesSeq == InitStore /\ left = MaxLikesSeqRequests

NextLikesSeq ==
    \/ StartFilmStatus("p1", {SuperLogin}, FilmIds,
                       ListCategories \cup {"watching"}, {"add", "remove"},
                       {"ok"})
    \/ ListSteps("p1")

SpecLikesSeq == InitLikesSeq /\ [][NextLikesSeq]_vars

\* Likes added and removed by two requests at once.
InitLikes == InitStore /\ left = MaxLikesRequests

NextLikes ==
    \E p \in Procs :
        \/ StartFilmStatus(p, Logins, {"f1"}, {"like"}, {"add", "remove"},
                           {"ok"})
        \/ ListSteps(p)

SpecLikes == InitLikes /\ [][NextLikes]_vars

\* Every category and method of the film router, for one user and film.
InitNotify == InitStore /\ left = MaxNotifyRequests

NextNotify ==
    \/ StartFilmStatus("p1", {SuperLogin}, {"f1"}, LikesCategories, Methods,
                       Payloads)
    \/ ListSteps("p1") \/ ReviewSteps("p1")

SpecNotify == InitNotify /\ [][NextNotify]_vars

\* Requests to the ugc endpoint.
InitUgc == InitStore /\ left = MaxUgcRequests

NextUgc == StartAction("p1") \/ ha_route("p1") \/ ha_send("p1")

SpecUgc == InitUgc /\ [][NextUgc]_vars

\* C35: an add to a like, dislike or favorite list succeeds only if the
\* film was not in the list and a remove only if it was; after a rejected
\* add or remove the user's lists and the film's counters are what they
\* were when the request arrived.
C35_AddRemoveChecked ==
    \A p \in Procs :
        LET r == proc[p]
        IN (r.op = "film_status" /\ r.pc = "done"
                /\ r.category \in ListCategories)
           => /\ (r.status = 200 /\ r.inc > 0) => ~r.had
              /\ (r.status = 200 /\ r.inc < 0) => r.had
              /\ r.status = 400 => /\ UserNow(r.uid) = r.before.user
                                   /\ FilmNow(r.film) = r.before.film

\* An add of a film that is in the list has been rejected: the list holds
\* the film once and the counter is 1.
C35_Witness ==
    LET r == proc["p1"]
    IN /\ r.op = "film_status" /\ r.pc = "done" /\ r.status = 400
       /\ r.category \in ListCategories /\ r.inc > 0 /\ r.had
       /\ mongo.users[r.uid][FILM_VALID_CATEGORIES[r.category].user_field]
              = <<r.film>>
       /\ mongo.films[r.film][FILM_VALID_CATEGORIES[r.category].film_field]
              = 1

\* No request of the film router is being handled.
Quiescent == \A p \in Procs : proc[p].pc \in {"idle", "done"}

\* The users whose list of the category holds the film.
Holders(f, c) ==
    {u \in Logins : In(f, UserNow(u)[FILM_VALID_CATEGORIES[c].user_field])}

\* C36: whatever the interleaving of concurrent add and remove requests,
\* once they are handled each film counter equals the number of users whose
\* corresponding list holds the film, and no counter is negative.
C36_CountersMatchLists ==
    \A f \in FilmIds, c \in ListCategories :
        LET n == FilmNow(f)[FILM_VALID_CATEGORIES[c].film_field]
        IN /\ n >= 0
           /\ Quiescent => n = Cardinality(Holders(f, c))


\* C37: the ugc endpoint accepts exactly the (category, action) pairs its
\* documentation lists; every other pair is answered not-found and no
\* event is sent for it.
C37_DocumentedPairs ==
    \A p \in Procs :
        LET r == proc[p]
        IN (r.op = "handle_action" /\ r.pc = "done")
           => /\ (r.status # 404) <=>
                    (/\ r.category \in DOMAIN DocumentedActions
                     /\ r.action \in DocumentedActions[r.category])
              /\ r.status = 404 => r.calls = 0

\* C38: every notification the likes service posts after a successful
\* mutation is a pair the ugc endpoint accepts (its answer is 200).
C38_NotificationsAccepted ==
    \A p \in Procs :
        (proc[p].op = "film_status" /\ proc[p].pc = "done"
            /\ proc[p].status = 200)
        => proc[p].vstatus = 200

\* C39: the ugc endpoint answers with its success message only if every
\* event was handed to the producer without error, and a request whose
\* send failed is answered Server error.
C39_SuccessMeansSent ==
    \A p \in Procs :
        LET r == proc[p]
        IN (r.op = "handle_action" /\ r.pc = "done" /\ r.calls > 0)
           => /\ r.status = 200 => r.raised = None
              /\ r.raised # None =>
                    (r.status = 500 /\ r.detail = "Server error")

====
